---- MODULE Spec2Model ----
(***************************************************************************)
(* Portfolio tracker (src/main.py): CryptoAsset, PortfolioTracker and the  *)
(* input loop of main.  Amounts and prices are integers standing for the   *)
(* floats of the program.  A price is <<>> (None) or <<p>> (the float p).  *)
(***************************************************************************)
EXTENDS Integers, Sequences, FiniteSets, TLC

\* ---------------------------------------------------------------- bounds
MaxAssets == 2          \* longest holdings list explored

\* ------------------------------------------------------- program constants
None == <<>>
Some(p) == <<p>>

\* COIN_ID_MAP, main.py:20-30
COIN_ID_MAP ==
    [s \in {"btc", "eth", "ltc", "doge", "xrp", "ada", "sol", "bnb", "matic"} |->
        CASE s = "btc" -> "bitcoin"
          [] s = "eth" -> "ethereum"
          [] s = "ltc" -> "litecoin"
          [] s = "doge" -> "dogecoin"
          [] s = "xrp" -> "ripple"
          [] s = "ada" -> "cardano"
          [] s = "sol" -> "solana"
          [] s = "bnb" -> "binancecoin"
          [] s = "matic" -> "matic-network"]

\* ------------------------------------------------------------------ inputs
\* What the user types at the symbol prompt (after strip()).
SymbolInputs == {"btc", "BTC", "Eth", "xyz", "XYZ", "Done"}

\* What the user types at the amount prompt (after strip()).
AmountInputs == {"-1", "0", "1", "2", "abc"}

\* str.lower() and str.upper() on the typed symbols.
lower(s) ==
    CASE s \in {"btc", "BTC"} -> "btc"
      [] s = "Eth" -> "eth"
      [] s \in {"xyz", "XYZ"} -> "xyz"
      [] s = "Done" -> "done"

upper(s) ==
    CASE s \in {"btc", "BTC"} -> "BTC"
      [] s = "Eth" -> "ETH"
      [] s \in {"xyz", "XYZ"} -> "XYZ"
      [] s = "Done" -> "DONE"

\* float(text): <<>> when it raises ValueError, <<value>> otherwise.
float(text) ==
    CASE text = "-1" -> <<0 - 1>>
      [] text = "0" -> <<0>>
      [] text = "1" -> <<1>>
      [] text = "2" -> <<2>>
      [] OTHER -> <<>>

\* The provider ids the typed symbols can map to.
CoinPool == {"bitcoin", "ethereum"}

\* The numbers the price source answers with.
PriceAnswers == {0 - 1, 2}

\* One entry of the JSON answer, for one provider id:
\*   absent  the id is no key of the answer
\*   null    the id maps to null (no object)
\*   pnull   the id maps to an object whose currency is missing or null
\*   str     the currency maps to a non-numeric string
\*   num     the currency maps to the number v
Entries ==
    {[kind |-> k, v |-> 0] : k \in {"absent", "null", "pnull", "str"}}
    \cup {[kind |-> "num", v |-> p] : p \in PriceAnswers}

NoData == [c \in CoinPool |-> [kind |-> "absent", v |-> 0]]

\* What the HTTP exchange does: raise is the exception requests.get or
\* raise_for_status raises ("none": a 2xx answer), body the kind of body.
Responses ==
    {[raise |-> e, body |-> "dict", data |-> NoData] :
        e \in {"ConnectionError", "ConnectTimeout", "ReadTimeout", "HTTPError"}}
    \cup {[raise |-> "none", body |-> b, data |-> NoData] : b \in {"notjson", "list"}}
    \cup {[raise |-> "none", body |-> "dict", data |-> d] : d \in [CoinPool -> Entries]}

NoResponse == [raise |-> "none", body |-> "dict", data |-> NoData]

\* ------------------------------------------------------------- CryptoAsset
\* CryptoAsset.__init__
CryptoAsset(symbol, amount, coin_id) ==
    [symbol |-> upper(symbol), amount |-> amount, coin_id |-> coin_id, price |-> None]

\* CryptoAsset.set_price: float(price), None on TypeError/ValueError.
\* The argument is an entry of kind num, str or (None) pnull.
set_price(asset, entry) ==
    [asset EXCEPT !.price = IF entry.kind = "num" THEN Some(entry.v) ELSE None]

\* CryptoAsset.get_total_value
get_total_value_counts_unpriced(asset) ==
    IF asset.price = None THEN asset.amount ELSE asset.amount * asset.price[1]

get_total_value(asset) ==
    IF asset.price = None THEN 0 ELSE asset.amount * asset.price[1]

\* -------------------------------------------------------- PortfolioTracker
\* PortfolioTracker.add_asset: the new list of assets.
add_asset_no_check(assets, symbol, amount) ==
    LET symbol_lower == lower(symbol)
        coin_id == IF symbol_lower \in DOMAIN COIN_ID_MAP
                   THEN COIN_ID_MAP[symbol_lower] ELSE symbol_lower
    IN  Append(assets, CryptoAsset(symbol, amount, coin_id))

add_asset(assets, symbol, amount) ==
    LET symbol_lower == lower(symbol)
    IN  IF symbol_lower \notin DOMAIN COIN_ID_MAP
        THEN assets
        ELSE Append(assets, CryptoAsset(symbol, amount, COIN_ID_MAP[symbol_lower]))

\* One pass of the loop of main: the new list of assets.
main_loop_nonnegative(assets, symbol, text) ==
    IF lower(symbol) = "done" THEN assets
    ELSE IF float(text) = <<>> THEN assets
    ELSE IF float(text)[1] >= 0 THEN add_asset(assets, symbol, float(text)[1])
    ELSE assets

main_loop(assets, symbol, text) ==
    IF lower(symbol) = "done" THEN assets
    ELSE IF float(text) = <<>> THEN assets
    ELSE IF float(text)[1] > 0 THEN add_asset(assets, symbol, float(text)[1])
    ELSE assets

\* All orders in which the elements of the set S can be joined.
Joins(S) ==
    {q \in [1..Cardinality(S) -> S] : \A i, j \in 1..Cardinality(S) : q[i] = q[j] => i = j}

\* ",".join({asset.get_coin_id() for asset in self.assets}): the ids of the
\* query, in any of the orders the iteration of a set can give.
ids_of_list(assets) ==
    {[i \in 1..Len(assets) |-> assets[i].coin_id]}

ids(assets) ==
    Joins({assets[i].coin_id : i \in 1..Len(assets)})

\* isinstance(exception, class) for the exceptions the try block can raise
\* (requests.exceptions: ConnectTimeout(ConnectionError, Timeout),
\* ReadTimeout(Timeout)).
IsInstance(exc, cls) ==
    \/ cls = "Exception"
    \/ exc = cls
    \/ exc = "ConnectTimeout" /\ cls \in {"ConnectionError", "Timeout"}
    \/ exc = "ReadTimeout" /\ cls = "Timeout"

\* The except clauses of fetch_prices, in order: the message printed.
Handler(exc) ==
    IF IsInstance(exc, "ConnectionError") THEN "NO_INTERNET"
    ELSE IF IsInstance(exc, "HTTPError") THEN "API_REQUEST_ERROR"
    ELSE "UNKNOWN_ERROR"

\* requests.get, raise_for_status and response.json(): the exception raised
\* before the loop, "none" when data is returned.
Request(resp) ==
    IF resp.raise # "none" THEN resp.raise
    ELSE IF resp.body = "notjson" THEN "JSONDecodeError"
    ELSE "none"

\* The loop over self.assets from index i on: data.get(id, {}).get(currency)
\* raises AttributeError when data is no object or the id maps to null; the
\* loop stops there, with the assets before i already updated.
RECURSIVE Apply(_, _, _, _)
Apply(assets, i, resp, warned) ==
    IF i > Len(assets) THEN [assets |-> assets, warned |-> warned, exc |-> "none"]
    ELSE IF resp.body # "dict" THEN
        [assets |-> assets, warned |-> warned, exc |-> "AttributeError"]
    ELSE LET entry == resp.data[assets[i].coin_id]
         IN  IF entry.kind = "null" THEN
                 [assets |-> assets, warned |-> warned, exc |-> "AttributeError"]
             ELSE IF entry.kind \in {"num", "str"} THEN
                 Apply([assets EXCEPT ![i] = set_price(assets[i], entry)],
                       i + 1, resp, warned)
             ELSE
                 Apply([assets EXCEPT ![i] = set_price(assets[i], entry)],
                       i + 1, resp, warned \cup {i})

\* fetch_prices forgetting the prices when the request fails.
fetch_prices_clears_on_error(assets, q, resp) ==
    IF assets = <<>> THEN
        [assets |-> assets, outcome |-> "NO_ASSETS", calls |-> 0,
         query |-> <<>>, warned |-> {}]
    ELSE IF Request(resp) # "none" THEN
        [assets |-> [i \in 1..Len(assets) |-> [assets[i] EXCEPT !.price = None]],
         outcome |-> Handler(Request(resp)), calls |-> 1, query |-> q, warned |-> {}]
    ELSE LET r == Apply(assets, 1, resp, {})
         IN  [assets |-> r.assets,
              outcome |-> IF r.exc = "none" THEN "OK" ELSE Handler(r.exc),
              calls |-> 1, query |-> q, warned |-> r.warned]

\* fetch_prices without the early return on an empty list.
fetch_prices_no_empty_check(assets, q, resp) ==
    IF Request(resp) # "none" THEN
        [assets |-> assets, outcome |-> Handler(Request(resp)), calls |-> 1,
         query |-> q, warned |-> {}]
    ELSE LET r == Apply(assets, 1, resp, {})
         IN  [assets |-> r.assets,
              outcome |-> IF r.exc = "none" THEN "OK" ELSE Handler(r.exc),
              calls |-> 1, query |-> q, warned |-> r.warned]

\* PortfolioTracker.fetch_prices with the query order q and the exchange
\* resp: the assets after the call, the message printed (outcome), the number
\* of requests issued (calls), the ids sent (query) and the indexes of the
\* assets warned about (warned).
fetch_prices(assets, q, resp) ==
    IF assets = <<>> THEN
        [assets |-> assets, outcome |-> "NO_ASSETS", calls |-> 0,
         query |-> <<>>, warned |-> {}]
    ELSE IF Request(resp) # "none" THEN
        [assets |-> assets, outcome |-> Handler(Request(resp)), calls |-> 1,
         query |-> q, warned |-> {}]
    ELSE LET r == Apply(assets, 1, resp, {})
         IN  [assets |-> r.assets,
              outcome |-> IF r.exc = "none" THEN "OK" ELSE Handler(r.exc),
              calls |-> 1, query |-> q, warned |-> r.warned]

\* PortfolioTracker.display: the total returned.
RECURSIVE Total(_, _, _)
Total(assets, i, total) ==
    IF i > Len(assets) THEN total
    ELSE Total(assets, i + 1, total + get_total_value(assets[i]))

display(assets) ==
    IF assets = <<>> THEN 0 ELSE Total(assets, 1, 0)

\* ------------------------------------------------------------------- state
VARIABLES
    assets,     \* PortfolioTracker.assets
    last,       \* the last operation and what the user and the network gave it
    result      \* what the last operation printed and returned

vars == <<assets, last, result>>

NoResult == [outcome |-> "NONE", calls |-> 0, query |-> <<>>, warned |-> {}, total |-> 0]

Init ==
    /\ assets = <<>>
    /\ last = [op |-> "init", symbol |-> "", text |-> "", resp |-> NoResponse]
    /\ result = NoResult

\* One pass of the input loop of main.
Input ==
    \E symbol \in SymbolInputs, text \in AmountInputs :
        /\ Len(main_loop(assets, symbol, text)) <= MaxAssets
        /\ assets' = main_loop(assets, symbol, text)
        /\ last' = [op |-> "input", symbol |-> symbol, text |-> text, resp |-> NoResponse]
        /\ result' = NoResult

\* tracker.fetch_prices()
Fetch ==
    \E resp \in Responses :
        \E q \in ids(assets) :
            LET r == fetch_prices(assets, q, resp)
            IN  /\ assets' = r.assets
                /\ last' = [op |-> "fetch", symbol |-> "", text |-> "", resp |-> resp]
                /\ result' = [outcome |-> r.outcome, calls |-> r.calls,
                              query |-> r.query, warned |-> r.warned, total |-> 0]

\* tracker.display()
Display ==
    /\ result' = [NoResult EXCEPT !.outcome = "DISPLAY", !.total = display(assets)]
    /\ last' = [op |-> "display", symbol |-> "", text |-> "", resp |-> NoResponse]
    /\ UNCHANGED assets

Next == Input \/ Fetch \/ Display

Spec == Init /\ [][Next]_vars

\* ------------------------------------------------------------------ claims
\* The outcomes of refresh named by the specification.
NetworkUnavailable == "NO_INTERNET"
ProviderError == {"API_REQUEST_ERROR", "UNKNOWN_ERROR"}

Indexes == 1..Len(assets)
Priced(i) == assets[i].price # None
KnownSymbol(symbol) == lower(symbol) \in DOMAIN COIN_ID_MAP

\* The sum of amount * price over the assets with the indexes in S.
RECURSIVE SumOver(_)
SumOver(S) ==
    IF S = {} THEN 0
    ELSE LET i == CHOOSE x \in S : TRUE
         IN  assets[i].amount * assets[i].price[1] + SumOver(S \ {i})

\* C1: a fetch whose request raises ConnectionError ends with the
\* no-internet outcome and leaves every asset, so every price, as it was.
C1_ConnectionErrorKeepsPrices ==
    [][(last'.op = "fetch" /\ assets # <<>> /\ last'.resp.raise = "ConnectionError")
        => (result'.outcome = NetworkUnavailable /\ assets' = assets)]_vars

\* C1 witness: a connectivity failure met with one asset priced and one not.
C1_Witness ==
    /\ last.op = "fetch"
    /\ last.resp.raise = "ConnectionError"
    /\ result.outcome = NetworkUnavailable
    /\ \E i, j \in Indexes : Priced(i) /\ ~Priced(j)

\* C2: a fetch that ends in a provider error (HTTP error or any other fault)
\* leaves every asset's price as it was before the call.
C2_ProviderErrorKeepsPrices ==
    [][(last'.op = "fetch" /\ result'.outcome \in ProviderError) => assets' = assets]_vars

\* C3: in a fetch whose request succeeds with a JSON object, the fetch ends
\* OK and every asset gets the number answered for its id, or, when the entry
\* is absent, null or non-numeric, gets no price and a warning.
C3_PerAssetOmission ==
    [][(last'.op = "fetch" /\ assets # <<>> /\ Request(last'.resp) = "none"
        /\ last'.resp.body = "dict")
        => /\ result'.outcome = "OK"
           /\ Len(assets') = Len(assets)
           /\ \A i \in 1..Len(assets) :
                LET entry == last'.resp.data[assets[i].coin_id]
                IN  IF entry.kind = "num"
                    THEN assets'[i].price = Some(entry.v) /\ i \notin result'.warned
                    ELSE assets'[i].price = None /\ i \in result'.warned]_vars

\* C4: in every state the total display computes is the sum of
\* amount * price over the priced assets, 0 when there is none, and the
\* total the last display returned is that sum.
C4_TotalIsSumOfPriced ==
    /\ display(assets) = SumOver({i \in Indexes : Priced(i)})
    /\ (\A i \in Indexes : ~Priced(i)) => display(assets) = 0
    /\ last.op = "display" => result.total = SumOver({i \in Indexes : Priced(i)})

\* C4 witness: display returned a total over a priced and an unpriced asset.
C4_Witness ==
    /\ last.op = "display"
    /\ result.total # 0
    /\ \E i, j \in Indexes : Priced(i) /\ ~Priced(j)

\* C5: an input whose symbol, lowered, is no key of COIN_ID_MAP leaves the
\* list of assets as it was.
C5_UnknownSymbolKeepsAssets ==
    [][(last'.op = "input" /\ ~KnownSymbol(last'.symbol)) => assets' = assets]_vars

\* C5 witness: an upper-case unknown symbol typed with a valid amount into a
\* portfolio that holds an asset.
C5_Witness ==
    /\ last.op = "input"
    /\ last.symbol = "XYZ"
    /\ last.text = "2"
    /\ assets # <<>>

\* C6: an input whose amount is <= 0 leaves the list of assets as it was,
\* whatever the symbol, and every asset has an amount > 0 in every state.
C6_NonPositiveAmountKeepsAssets ==
    /\ [](\A i \in Indexes : assets[i].amount > 0)
    /\ [][(last'.op = "input" /\ float(last'.text) # <<>> /\ float(last'.text)[1] <= 0)
            => assets' = assets]_vars

\* C6 witness: the amount 0 typed for a known symbol into a portfolio that
\* holds an asset.
C6_Witness ==
    /\ last.op = "input"
    /\ last.text = "0"
    /\ KnownSymbol(last.symbol)
    /\ assets # <<>>

\* C7: the query of a fetch holds each provider id of the assets once, and
\* after a fetch that ends OK every asset whose id the answer prices has
\* that price.
C7_QueryIdsDeduplicated ==
    (last.op = "fetch" /\ result.calls = 1)
        => /\ \A m, n \in 1..Len(result.query) : result.query[m] = result.query[n] => m = n
           /\ {result.query[m] : m \in 1..Len(result.query)}
                = {assets[i].coin_id : i \in Indexes}
           /\ result.outcome = "OK"
                => \A i \in Indexes :
                     LET entry == last.resp.data[assets[i].coin_id]
                     IN  entry.kind = "num" => assets[i].price = Some(entry.v)

\* C7 witness: two assets of one provider id, one id in the query, both
\* priced by the fetch.
C7_Witness ==
    /\ last.op = "fetch"
    /\ result.outcome = "OK"
    /\ Len(assets) >= 2
    /\ assets[1].coin_id = assets[2].coin_id
    /\ Len(result.query) = 1
    /\ Priced(1) /\ assets[1].price = assets[2].price

\* C8: a fetch on an empty list issues no request, reports that there is
\* nothing to fetch and leaves the list empty with a total of 0; a fetch on
\* a non-empty list issues exactly one request, failed or not.
C8_EmptyFetchNoCall ==
    [][last'.op = "fetch"
        => IF assets = <<>>
           THEN /\ assets' = <<>>
                /\ result'.calls = 0
                /\ result'.outcome = "NO_ASSETS"
                /\ display(assets') = 0
           ELSE result'.calls = 1]_vars

\* C8 witness: a fetch on the empty list that reported nothing to fetch.
C8_Witness ==
    /\ last.op = "fetch"
    /\ assets = <<>>
    /\ result.outcome = "NO_ASSETS"
    /\ result.calls = 0

\* C9: a fetch whose request times out ends with the no-internet outcome.
C9_TimeoutIsConnectivity ==
    (last.op = "fetch" /\ assets # <<>>
        /\ last.resp.raise \in {"ConnectTimeout", "ReadTimeout"})
        => result.outcome = NetworkUnavailable

\* C10: in every state each asset's price is None or a number >= 0.
C10_PriceNeverNegative ==
    \A i \in Indexes : ~Priced(i) \/ assets[i].price[1] >= 0

====
